---- MODULE Spec2Model ----
(***************************************************************************)
(* Library rental service backend: the Book, Reader and Rental models      *)
(* (Mongoose schemas with their validators and pre-save hooks) and the     *)
(* controllers that drive them.                                            *)
(*                                                                         *)
(* Units.  Dates are milliseconds, as in JavaScript.  Money is counted in  *)
(* thousandths of the currency unit (2.50 is 2500), so that every          *)
(* percentage the code computes on the prices used here is an integer.     *)
(*                                                                         *)
(* A handler is an async function: it runs atomically from one await to    *)
(* the next, and other handlers run in between.  There is one action per   *)
(* such segment.  A save() runs the schema validators, then the pre-save   *)
(* hook, then writes the modified paths to the store; the store may reject *)
(* the write.  Reads of the store always answer.                           *)
(***************************************************************************)
EXTENDS Integers, Sequences, FiniteSets, TLC

VARIABLES
    revision,   \* which copy of the rental controller is deployed
    clock,      \* Date.now(), in milliseconds
    books,      \* the Book collection: id -> document
    readers,    \* the Reader collection: id -> document
    rentals,    \* the Rental collection, in insertion order
    req         \* the requests in flight: slot -> handler position and locals

vars == <<revision, clock, books, readers, rentals, req>>

-----------------------------------------------------------------------------
(* Bounds of the model *)

MaxCopies == 3
MaxRentals == 1
MaxClock == 1

(* Program constants *)

MsPerDay == 86400000
RentalLimit == 3
StudentDiscount == 15
SeniorDiscount == 20
EmployeeDiscount == 10
RegularDiscount == 0

\* The documents of the model: one book, two readers
BookIds == {1}
ReaderIds == {1, 2}
Titles == {1}
Phones == {1, 2}

\* One step of the wall clock: 36 hours, so that day spans need rounding.
TickMs == (3 * MsPerDay) \div 2

Categories == {"regular", "student", "senior", "employee"}
CategoryInputs == Categories \cup {"vip"}
PriceSet == {0, 2500}
DepositSet == {10000}
FineSet == {-1000, 0, 1000}
SaveOutcomes == {TRUE, FALSE}
Revisions == {"inline", "helpers"}
\* A field the request body does not carry, and a date that is not set
Undefined == 0 - 999
NoDate == 0 - 1

\* expectedReturnDate as the client sends it, relative to the time of the
\* request: 36 h ago, 18 h ago, in 14 days.
ExpectedOffsets == {0 - ((3 * MsPerDay) \div 2), 0 - ((3 * MsPerDay) \div 4),
                    14 * MsPerDay}

-----------------------------------------------------------------------------
(* Arithmetic of JavaScript numbers on the values used here *)

Max(a, b) == IF a >= b THEN a ELSE b

\* Math.ceil(n / d) for d > 0 and any integer n
CeilDiv(n, d) == IF n >= 0 THEN (n + d - 1) \div d ELSE 0 - ((0 - n) \div d)

-----------------------------------------------------------------------------
(* Book model *)

NoBook == [exists |-> FALSE, title |-> 0, depositAmount |-> 0,
           rentalPricePerDay |-> 0, availableCopies |-> 0, totalCopies |-> 0,
           isActive |-> FALSE]

BookValidNoMin(doc) ==
    /\ doc.depositAmount # Undefined /\ doc.depositAmount >= 0
    /\ doc.rentalPricePerDay # Undefined /\ doc.rentalPricePerDay >= 0
    /\ doc.availableCopies # Undefined
    /\ doc.totalCopies # Undefined /\ doc.totalCopies >= 1

\* Schema validators of the Book paths (required, min)
BookValid(doc) ==
    /\ doc.depositAmount # Undefined /\ doc.depositAmount >= 0
    /\ doc.rentalPricePerDay # Undefined /\ doc.rentalPricePerDay >= 0
    /\ doc.availableCopies # Undefined /\ doc.availableCopies >= 0
    /\ doc.totalCopies # Undefined /\ doc.totalCopies >= 1

BookPreSaveNoCheck(doc) == TRUE

\* bookSchema.pre('save'): TRUE when the hook calls next() without an error
BookPreSave(doc) == doc.availableCopies <= doc.totalCopies

isAvailableEither(doc) == doc.isActive \/ doc.availableCopies > 0

\* bookSchema.virtual('isAvailable')
isAvailable(doc) == doc.isActive /\ doc.availableCopies > 0

\* The error a save() of a Book document is rejected with, "none" if it is
\* written.  ok is the store's answer to the write.
BookSaveError(doc, ok) ==
    IF ~BookValid(doc) THEN "ValidationError"
    ELSE IF ~BookPreSave(doc) THEN "AvailableExceedsTotal"
    ELSE IF ~ok THEN "StoreError"
    ELSE "none"

rentCopyGuardError(doc) == IF ~isAvailable(doc) THEN "NoCopiesAvailable" ELSE "none"

returnCopyGuardStrict(doc) ==
    IF doc.availableCopies > doc.totalCopies THEN "CannotReturnMore" ELSE "none"

\* The throw of returnCopy
returnCopyGuardError(doc) ==
    IF doc.availableCopies >= doc.totalCopies THEN "CannotReturnMore" ELSE "none"

\* rentCopy on a loaded document: the error it ends with ("none": saved)
rentCopyError(doc, ok) ==
    IF rentCopyGuardError(doc) # "none" THEN rentCopyGuardError(doc)
    ELSE BookSaveError([doc EXCEPT !.availableCopies = @ - 1], ok)

\* returnCopy on a loaded document: the error it ends with ("none": saved)
returnCopyError(doc, ok) ==
    IF returnCopyGuardError(doc) # "none" THEN returnCopyGuardError(doc)
    ELSE BookSaveError([doc EXCEPT !.availableCopies = @ + 1], ok)

\* The Book collection after rentCopy on document doc of book b.  A save
\* writes the modified path only: availableCopies.
BooksAfterRentCopy(b, doc, ok) ==
    IF rentCopyError(doc, ok) = "none"
    THEN [books EXCEPT ![b].availableCopies = doc.availableCopies - 1]
    ELSE books

BooksAfterReturnCopyNoWrite(b, doc, ok) == books

\* The Book collection after returnCopy on document doc of book b
BooksAfterReturnCopy(b, doc, ok) ==
    IF returnCopyError(doc, ok) = "none"
    THEN [books EXCEPT ![b].availableCopies = doc.availableCopies + 1]
    ELSE books

FindBook(b) == IF b \in BookIds THEN books[b] ELSE NoBook

-----------------------------------------------------------------------------
(* Reader model *)

NoReader == [exists |-> FALSE, phone |-> 0, category |-> "regular",
             discountPercentage |-> 0, isActive |-> FALSE]

\* Schema validators of the Reader paths (enum, min, max)
ReaderValid(doc) ==
    /\ doc.category \in Categories
    /\ doc.discountPercentage >= 0 /\ doc.discountPercentage <= 100

DiscountForSwapped(category) ==
    CASE category = "student" -> SeniorDiscount
      [] category = "senior" -> StudentDiscount
      [] category = "employee" -> EmployeeDiscount
      [] OTHER -> RegularDiscount

\* The switch of readerSchema.pre('save')
DiscountFor(category) ==
    CASE category = "student" -> StudentDiscount
      [] category = "senior" -> SeniorDiscount
      [] category = "employee" -> EmployeeDiscount
      [] OTHER -> RegularDiscount

\* readerSchema.pre('save'): the document as the hook leaves it
ReaderPreSave(doc) == [doc EXCEPT !.discountPercentage = DiscountFor(doc.category)]

\* readerSchema.methods.calculateDiscountedPrice
calculateDiscountedPrice(reader, originalPrice) ==
    Max(0, originalPrice - ((originalPrice * reader.discountPercentage) \div 100))

ReaderSaveError(doc, ok) ==
    IF ~ReaderValid(doc) THEN "ValidationError"
    ELSE IF ~ok THEN "StoreError"
    ELSE "none"

FindReader(r) == IF r \in ReaderIds THEN readers[r] ELSE NoReader

-----------------------------------------------------------------------------
(* Rental model *)

NoRental == [book |-> 0, reader |-> 0, issueDate |-> 0, expectedReturnDate |-> 0,
             actualReturnDate |-> NoDate, depositAmount |-> 0,
             rentalPricePerDay |-> 0, fineAmount |-> 0, discountAmount |-> 0,
             totalAmount |-> 0, status |-> "none", updatedAt |-> NoDate]

\* Schema validators that run when a new Rental is saved: every path that
\* is set or defaulted.  They run before the pre-save hook, so totalAmount
\* still has its default.
RentalValidNew(doc) ==
    /\ doc.depositAmount >= 0
    /\ doc.rentalPricePerDay >= 0
    /\ doc.fineAmount >= 0
    /\ doc.discountAmount >= 0
    /\ doc.totalAmount >= 0

RentalValidReturnNoMin(doc) ==
    /\ doc.depositAmount >= 0
    /\ doc.rentalPricePerDay >= 0

\* Schema validators that run when a loaded Rental is saved by returnBook:
\* the required paths and the modified ones (actualReturnDate, fineAmount,
\* status).
RentalValidReturn(doc) ==
    /\ doc.depositAmount >= 0
    /\ doc.rentalPricePerDay >= 0
    /\ doc.fineAmount >= 0

RentalPreSaveNoMin(doc, now) ==
    LET endDate == IF doc.actualReturnDate # NoDate THEN doc.actualReturnDate ELSE now
        rentalDays == CeilDiv(endDate - doc.issueDate, MsPerDay)
    IN  [doc EXCEPT
           !.totalAmount = (doc.rentalPricePerDay * rentalDays) + doc.fineAmount
                           - doc.discountAmount,
           !.status = IF doc.actualReturnDate # NoDate THEN "returned"
                      ELSE IF now > doc.expectedReturnDate THEN "overdue"
                      ELSE @]

RentalPreSaveNoOverdue(doc, now) ==
    LET endDate == IF doc.actualReturnDate # NoDate THEN doc.actualReturnDate ELSE now
        rentalDays == Max(1, CeilDiv(endDate - doc.issueDate, MsPerDay))
    IN  [doc EXCEPT
           !.totalAmount = (doc.rentalPricePerDay * rentalDays) + doc.fineAmount
                           - doc.discountAmount,
           !.status = IF doc.actualReturnDate # NoDate THEN "returned" ELSE @]

\* rentalSchema.pre('save'): the document as the hook leaves it at time now
RentalPreSave(doc, now) ==
    LET endDate == IF doc.actualReturnDate # NoDate THEN doc.actualReturnDate ELSE now
        rentalDays == Max(1, CeilDiv(endDate - doc.issueDate, MsPerDay))
    IN  [doc EXCEPT
           !.totalAmount = (doc.rentalPricePerDay * rentalDays) + doc.fineAmount
                           - doc.discountAmount,
           !.status = IF doc.actualReturnDate # NoDate THEN "returned"
                      ELSE IF now > doc.expectedReturnDate THEN "overdue"
                      ELSE @]

\* The schema option timestamps: every save sets updatedAt
Timestamps(doc, now) == [doc EXCEPT !.updatedAt = now]

\* rentalSchema.methods.returnBook, up to its save
returnBookDoc(doc, fineAmount, now) ==
    [doc EXCEPT !.actualReturnDate = now, !.fineAmount = fineAmount,
                !.status = "returned"]

-----------------------------------------------------------------------------
(* Requests *)

Slots == {1, 2}

\* The data of a statistics response, before it is computed
NoStats == [activeRentals |-> 0, overdueRentals |-> 0, completedRentals |-> 0,
            totalRentals |-> 0, totalRevenue |-> 0]

\* No error object, and no error response: status 0 stands for a property
\* that is not set
NoError == [status |-> 0, statusCode |-> 0, name |-> "none", code |-> 0, message |-> ""]
NoResponse == [status |-> 0, message |-> ""]

\* A slot with no request: nothing was asked yet
IdleReq == [op |-> "none", pc |-> "idle", at |-> "idle", err |-> "none",
            bookId |-> 0, readerId |-> 0, rentalId |-> 0,
            expected |-> 0, fine |-> 0, given |-> 0, before |-> 0,
            book |-> NoBook, reader |-> NoReader, rental |-> NoRental,
            query |-> "", listed |-> {}, stats |-> NoStats,
            error |-> NoError, response |-> NoResponse]

\* A finished request: the segment it ended in, its error ("none" when it
\* was answered with success), what it was about, and what the store held
\* when it began.
Done(op, at, err, bookId, readerId, rentalId, given, before) ==
    [IdleReq EXCEPT !.op = op, !.pc = "done", !.at = at, !.err = err,
                    !.bookId = bookId, !.readerId = readerId,
                    !.rentalId = rentalId, !.given = given, !.before = before]

Free(s) == req[s].pc \in {"idle", "done"}

-----------------------------------------------------------------------------
(* Book controller.  Its handlers are taken one at a time: each is one      *)
(* action, from the findById to the save.                                   *)

FreeBookIds == {b \in BookIds : ~books[b].exists}
FreeReaderIds == {r \in ReaderIds : ~readers[r].exists}

\* The value of a path after Object.assign with a field the body may lack
Assigned(v, old) == IF v = Undefined THEN old ELSE v

\* createBook
CreateBook(title, deposit, price, total) ==
    /\ Free(1)
    /\ LET existing == \E x \in BookIds : books[x].exists /\ books[x].title = title
           b == IF FreeBookIds = {} THEN 0
                ELSE CHOOSE x \in FreeBookIds : \A y \in FreeBookIds : x <= y
           doc == [exists |-> TRUE, title |-> title, depositAmount |-> deposit,
                   rentalPricePerDay |-> price,
                   availableCopies |-> Assigned(total, 1),
                   totalCopies |-> Assigned(total, 1),
                   isActive |-> TRUE]
       IN  \E ok \in SaveOutcomes :
             LET err == IF existing THEN "Duplicate" ELSE BookSaveError(doc, ok)
             IN  /\ ~existing => b # 0
                 /\ books' = IF err = "none" THEN [books EXCEPT ![b] = doc] ELSE books
                 /\ req' = [req EXCEPT ![1] =
                        [Done("createBook", "save", err, b, 0, 0, 0, 0) EXCEPT !.book = doc]]
    /\ UNCHANGED <<revision, clock, readers, rentals>>

UpdateBookRepricing(b, deposit, price, total, available, active) ==
    /\ Free(1)
    /\ LET book == FindBook(b)
           doc == [book EXCEPT !.depositAmount = Assigned(deposit, @),
                               !.rentalPricePerDay = Assigned(price, @),
                               !.totalCopies = Assigned(total, @),
                               !.availableCopies = Assigned(available, @),
                               !.isActive = IF active = Undefined THEN @ ELSE active = 1]
       IN  \E ok \in SaveOutcomes :
             LET err == IF ~book.exists THEN "BookNotFound" ELSE BookSaveError(doc, ok)
             IN  /\ books' = IF err = "none" THEN [books EXCEPT ![b] = doc] ELSE books
                 /\ rentals' = IF err = "none"
                               THEN [i \in DOMAIN rentals |->
                                       IF rentals[i].book = b
                                       THEN [rentals[i] EXCEPT
                                               !.rentalPricePerDay = doc.rentalPricePerDay]
                                       ELSE rentals[i]]
                               ELSE rentals
                 /\ req' = [req EXCEPT ![1] =
                        [Done("updateBook", "save", err, b, 0, 0, 0, book.availableCopies)
                         EXCEPT !.book = doc]]
    /\ UNCHANGED <<revision, clock, readers>>

\* updateBook
UpdateBook(b, deposit, price, total, available, active) ==
    /\ Free(1)
    /\ LET book == FindBook(b)
           doc == [book EXCEPT !.depositAmount = Assigned(deposit, @),
                               !.rentalPricePerDay = Assigned(price, @),
                               !.totalCopies = Assigned(total, @),
                               !.availableCopies = Assigned(available, @),
                               !.isActive = IF active = Undefined THEN @ ELSE active = 1]
       IN  \E ok \in SaveOutcomes :
             LET err == IF ~book.exists THEN "BookNotFound" ELSE BookSaveError(doc, ok)
             IN  /\ books' = IF err = "none" THEN [books EXCEPT ![b] = doc] ELSE books
                 /\ req' = [req EXCEPT ![1] =
                        [Done("updateBook", "save", err, b, 0, 0, 0, book.availableCopies)
                         EXCEPT !.book = doc]]
    /\ UNCHANGED <<revision, clock, readers, rentals>>

\* deleteBook
DeleteBook(b) ==
    /\ Free(1)
    /\ LET book == FindBook(b)
           doc == [book EXCEPT !.isActive = FALSE]
       IN  \E ok \in SaveOutcomes :
             LET err == IF ~book.exists THEN "BookNotFound" ELSE BookSaveError(doc, ok)
             IN  /\ books' = IF err = "none" THEN [books EXCEPT ![b] = doc] ELSE books
                 /\ req' = [req EXCEPT ![1] =
                        [Done("deleteBook", "save", err, b, 0, 0, 0, book.availableCopies)
                         EXCEPT !.book = doc]]
    /\ UNCHANGED <<revision, clock, readers, rentals>>

\* rentCopy called on a freshly loaded document of book b
RentCopyCall(b) ==
    /\ Free(1)
    /\ books[b].exists
    /\ \E ok \in SaveOutcomes :
         /\ books' = BooksAfterRentCopy(b, books[b], ok)
         /\ req' = [req EXCEPT ![1] =
                [Done("rentCopy", "save", rentCopyError(books[b], ok), b, 0, 0, 0,
                      books[b].availableCopies) EXCEPT !.book = books[b]]]
    /\ UNCHANGED <<revision, clock, readers, rentals>>

\* returnCopy called on a freshly loaded document of book b
ReturnCopyCall(b) ==
    /\ Free(1)
    /\ books[b].exists
    /\ \E ok \in SaveOutcomes :
         /\ books' = BooksAfterReturnCopy(b, books[b], ok)
         /\ req' = [req EXCEPT ![1] =
                [Done("returnCopy", "save", returnCopyError(books[b], ok), b, 0, 0, 0,
                      books[b].availableCopies) EXCEPT !.book = books[b]]]
    /\ UNCHANGED <<revision, clock, readers, rentals>>

-----------------------------------------------------------------------------
(* Reader controller, one handler at a time *)

\* createReader.  The body's discountPercentage is not read.
CreateReader(phone, category, discountPercentage) ==
    /\ Free(1)
    /\ LET existingReader == \E x \in ReaderIds : readers[x].exists /\ readers[x].phone = phone
           r == IF FreeReaderIds = {} THEN 0
                ELSE CHOOSE x \in FreeReaderIds : \A y \in FreeReaderIds : x <= y
           doc == [exists |-> TRUE, phone |-> phone,
                   category |-> IF category = "undefined" THEN "regular" ELSE category,
                   discountPercentage |-> 0, isActive |-> TRUE]
       IN  \E ok \in SaveOutcomes :
             LET err == IF existingReader THEN "Duplicate" ELSE ReaderSaveError(doc, ok)
             IN  /\ ~existingReader => r # 0
                 /\ readers' = IF err = "none" THEN [readers EXCEPT ![r] = ReaderPreSave(doc)]
                               ELSE readers
                 /\ req' = [req EXCEPT ![1] = Done("createReader", "save", err, 0, r, 0, discountPercentage, 0)]
    /\ UNCHANGED <<revision, clock, books, rentals>>

\* updateReader.  discountPercentage is not among the fields it copies.
UpdateReader(r, phone, category, active, discountPercentage) ==
    /\ Free(1)
    /\ LET reader == FindReader(r)
           existingPhone == /\ phone # Undefined /\ phone # reader.phone
                            /\ \E x \in ReaderIds : readers[x].exists /\ readers[x].phone = phone
           doc == [reader EXCEPT !.phone = Assigned(phone, @),
                                 !.category = IF category = "undefined" THEN @ ELSE category,
                                 !.isActive = IF active = Undefined THEN @ ELSE active = 1]
       IN  \E ok \in SaveOutcomes :
             LET err == IF ~reader.exists THEN "ReaderNotFound"
                        ELSE IF existingPhone THEN "Duplicate"
                        ELSE ReaderSaveError(doc, ok)
             IN  /\ readers' = IF err = "none" THEN [readers EXCEPT ![r] = ReaderPreSave(doc)]
                               ELSE readers
                 /\ req' = [req EXCEPT ![1] = Done("updateReader", "save", err, 0, r, 0, discountPercentage, 0)]
    /\ UNCHANGED <<revision, clock, books, rentals>>

\* deleteReader
DeleteReader(r) ==
    /\ Free(1)
    /\ LET reader == FindReader(r)
           doc == [reader EXCEPT !.isActive = FALSE]
       IN  \E ok \in SaveOutcomes :
             LET err == IF ~reader.exists THEN "ReaderNotFound" ELSE ReaderSaveError(doc, ok)
             IN  /\ readers' = IF err = "none" THEN [readers EXCEPT ![r] = ReaderPreSave(doc)]
                               ELSE readers
                 /\ req' = [req EXCEPT ![1] = Done("deleteReader", "save", err, 0, r, 0, 0, 0)]
    /\ UNCHANGED <<revision, clock, books, rentals>>

-----------------------------------------------------------------------------
(* The models on their own: an empty store, the Book and Reader controllers *)
(* and direct calls of the Book methods, one at a time.                     *)

InitEmpty ==
    /\ revision = "helpers"
    /\ clock = 0
    /\ books = [b \in BookIds |-> NoBook]
    /\ readers = [r \in ReaderIds |-> NoReader]
    /\ rentals = <<>>
    /\ req = [s \in Slots |-> IdleReq]

TotalInputs == (0..MaxCopies) \cup {Undefined}
AvailableInputs == (-1..(MaxCopies + 1)) \cup {Undefined}
FlagInputs == {0, 1, Undefined}

NextBook ==
    \/ \E t \in Titles, d \in DepositSet, p \in {2500, Undefined}, n \in TotalInputs :
         CreateBook(t, d, p, n)
    \/ \E b \in BookIds, n \in TotalInputs, a \in AvailableInputs, f \in FlagInputs :
         UpdateBook(b, Undefined, Undefined, n, a, f)
    \/ \E b \in BookIds : DeleteBook(b)
    \/ \E b \in BookIds : RentCopyCall(b)
    \/ \E b \in BookIds : ReturnCopyCall(b)

SpecBook == InitEmpty /\ [][NextBook]_vars

NextReader ==
    \/ \E p \in Phones, c \in CategoryInputs \cup {"undefined"}, d \in {Undefined, 50} :
         CreateReader(p, c, d)
    \/ \E r \in ReaderIds, p \in Phones \cup {Undefined}, c \in CategoryInputs \cup {"undefined"},
          f \in FlagInputs, d \in {Undefined, 50} :
         UpdateReader(r, p, c, f, d)
    \/ \E r \in ReaderIds : DeleteReader(r)

SpecReader == InitEmpty /\ [][NextReader]_vars

-----------------------------------------------------------------------------
(* Rental controller: createRental *)

\* calculateRentalDays of the controller with helpers
calculateRentalDays(startDate, endDate) == CeilDiv(endDate - startDate, MsPerDay)

\* calculateDiscountAmount of the controller with helpers
calculateDiscountAmount(baseCost, discountedCost) == baseCost - discountedCost

\* discountAmount as the controller with helpers computes it
discountAmountHelpers(book, reader, now, expected) ==
    LET rentalDays == calculateRentalDays(now, expected)
        baseCost == book.rentalPricePerDay * rentalDays
        discountedCost == calculateDiscountedPrice(reader, baseCost)
    IN  calculateDiscountAmount(baseCost, discountedCost)

\* discountAmount as the controller computes it inline
discountAmountInline(book, reader, now, expected) ==
    calculateDiscountedPrice(reader,
        book.rentalPricePerDay * CeilDiv(expected - now, MsPerDay))
    - (book.rentalPricePerDay * CeilDiv(expected - now, MsPerDay))

\* The Rental document createRental builds
NewRental(s, now) ==
    [book |-> req[s].bookId, reader |-> req[s].readerId, issueDate |-> now,
     expectedReturnDate |-> req[s].expected, actualReturnDate |-> NoDate,
     depositAmount |-> req[s].book.depositAmount,
     rentalPricePerDay |-> req[s].book.rentalPricePerDay,
     fineAmount |-> 0,
     discountAmount |-> IF revision = "inline"
                        THEN discountAmountInline(req[s].book, req[s].reader, now, req[s].expected)
                        ELSE discountAmountHelpers(req[s].book, req[s].reader, now, req[s].expected),
     totalAmount |-> 0, status |-> "active", updatedAt |-> NoDate]

\* Rental.countDocuments({ reader: readerId, status: 'active' })
activeRentals(readerId) ==
    Cardinality({i \in DOMAIN rentals :
                    rentals[i].reader = readerId /\ rentals[i].status = "active"})

NextSegmentCopyFirst(pc) ==
    CASE pc = "count" -> "rentCopy"
      [] pc = "rentCopy" -> "saveRental"
      [] OTHER -> "respond"

\* The order of the awaits of createRental after the limit check:
\* rental.save(), then book.rentCopy(), then the response
NextSegment(pc) ==
    CASE pc = "count" -> "saveRental"
      [] pc = "saveRental" -> "rentCopy"
      [] OTHER -> "respond"

Creating == {s \in Slots : req[s].op = "createRental" /\ ~Free(s)}

\* A segment of slot s ends: with err the handler throws and the request is
\* answered with the error; otherwise it goes on to segment next, and is
\* answered with success when there is none.
Proceed(s, err, next, changes) ==
    IF err # "none" \/ next = "respond"
    THEN [req EXCEPT ![s] =
            [Done(req[s].op, req[s].pc, err, req[s].bookId, req[s].readerId,
                  changes.rentalId, 0, req[s].before)
             EXCEPT !.rental = req[s].rental, !.fine = req[s].fine]]
    ELSE [req EXCEPT ![s] = [changes EXCEPT !.pc = next]]

\* createRental up to its first await: Book.findById and the checks on it
CreateRental(s, b, r, e, cap) ==
    /\ Free(s)
    /\ LET book == FindBook(b)
           err == IF ~book.exists \/ ~book.isActive THEN "BookNotFound"
                  ELSE IF ~isAvailable(book) THEN "BookNotAvailable"
                  ELSE "none"
           start == [IdleReq EXCEPT !.op = "createRental", !.pc = "findBook",
                                    !.bookId = b, !.readerId = r,
                                    !.expected = clock + e,
                                    !.before = book.availableCopies, !.book = book]
       IN  /\ err = "none" => Len(rentals) + Cardinality(Creating) < cap
           /\ req' = [req EXCEPT ![s] =
                     IF err # "none"
                     THEN Done("createRental", "findBook", err, b, r, 0, 0,
                               book.availableCopies)
                     ELSE [start EXCEPT !.pc = "findReader"]]
    /\ UNCHANGED <<revision, clock, books, readers, rentals>>

\* Reader.findById and the checks on it
CreateFindReader(s) ==
    /\ req[s].op = "createRental" /\ req[s].pc = "findReader"
    /\ LET reader == FindReader(req[s].readerId)
           err == IF ~reader.exists \/ ~reader.isActive THEN "ReaderNotFound" ELSE "none"
       IN  req' = Proceed(s, err, "count", [req[s] EXCEPT !.reader = reader])
    /\ UNCHANGED <<revision, clock, books, readers, rentals>>

CreateCountReleasing(s) ==
    /\ req[s].op = "createRental" /\ req[s].pc = "count"
    /\ LET err == IF activeRentals(req[s].readerId) >= RentalLimit
                  THEN "RentalLimit" ELSE "none"
       IN  /\ req' = Proceed(s, err, NextSegment("count"), req[s])
           /\ books' = IF err = "none" THEN books
                       ELSE [books EXCEPT ![req[s].bookId].availableCopies = @ + 1]
    /\ UNCHANGED <<revision, clock, readers, rentals>>

\* Rental.countDocuments and the limit check
CreateCount(s) ==
    /\ req[s].op = "createRental" /\ req[s].pc = "count"
    /\ LET err == IF activeRentals(req[s].readerId) >= RentalLimit
                  THEN "RentalLimit" ELSE "none"
       IN  req' = Proceed(s, err, NextSegment("count"), req[s])
    /\ UNCHANGED <<revision, clock, books, readers, rentals>>

CreateSaveRentalRechecking(s) ==
    /\ req[s].op = "createRental" /\ req[s].pc = "saveRental"
    /\ \E ok \in SaveOutcomes :
         LET doc == NewRental(s, clock)
             err == IF activeRentals(req[s].readerId) >= RentalLimit THEN "RentalLimit"
                    ELSE IF ~RentalValidNew(doc) THEN "ValidationError"
                    ELSE IF ~ok THEN "StoreError"
                    ELSE "none"
         IN  /\ rentals' = IF err = "none"
                           THEN Append(rentals, Timestamps(RentalPreSave(doc, clock), clock))
                           ELSE rentals
             /\ req' = Proceed(s, err, NextSegment("saveRental"),
                               [req[s] EXCEPT !.rentalId =
                                   IF err = "none" THEN Len(rentals) + 1 ELSE @])
    /\ UNCHANGED <<revision, clock, books, readers>>

\* new Rental(...) and rental.save()
CreateSaveRental(s) ==
    /\ req[s].op = "createRental" /\ req[s].pc = "saveRental"
    /\ \E ok \in SaveOutcomes :
         LET doc == NewRental(s, clock)
             err == IF ~RentalValidNew(doc) THEN "ValidationError"
                    ELSE IF ~ok THEN "StoreError"
                    ELSE "none"
         IN  /\ rentals' = IF err = "none"
                           THEN Append(rentals, Timestamps(RentalPreSave(doc, clock), clock))
                           ELSE rentals
             /\ req' = Proceed(s, err, NextSegment("saveRental"),
                               [req[s] EXCEPT !.rentalId =
                                   IF err = "none" THEN Len(rentals) + 1 ELSE @])
    /\ UNCHANGED <<revision, clock, books, readers>>

\* book.rentCopy() on the document read at the start
CreateRentCopy(s) ==
    /\ req[s].op = "createRental" /\ req[s].pc = "rentCopy"
    /\ \E ok \in SaveOutcomes :
         /\ books' = BooksAfterRentCopy(req[s].bookId, req[s].book, ok)
         /\ req' = Proceed(s, rentCopyError(req[s].book, ok), NextSegment("rentCopy"),
                           req[s])
    /\ UNCHANGED <<revision, clock, readers, rentals>>

-----------------------------------------------------------------------------
(* Rental controller: returnBook *)

alreadyReturnedNever(rental) == FALSE

\* The check `rental.status === 'returned'`
alreadyReturned(rental) == rental.status = "returned"

\* returnBook up to its first await: Rental.findById
ReturnBook(s, id, fineAmount) ==
    /\ Free(s)
    /\ LET found == id \in DOMAIN rentals
           rental == IF found THEN rentals[id] ELSE NoRental
           before == IF found THEN FindBook(rental.book).availableCopies ELSE 0
           start == [IdleReq EXCEPT !.op = "returnBook", !.pc = "populate",
                                    !.rentalId = id, !.bookId = rental.book,
                                    !.readerId = rental.reader,
                                    !.fine = Assigned(fineAmount, 0),
                                    !.before = before, !.rental = rental]
       IN  req' = [req EXCEPT ![s] =
                     IF ~found
                     THEN Done("returnBook", "findRental", "RentalNotFound", 0, 0, id, 0, 0)
                     ELSE start]
    /\ UNCHANGED <<revision, clock, books, readers, rentals>>

\* populate('book'), populate('reader') and the already-returned check
ReturnPopulate(s) ==
    /\ req[s].op = "returnBook" /\ req[s].pc = "populate"
    /\ LET err == IF alreadyReturned(req[s].rental) THEN "AlreadyReturned" ELSE "none"
       IN  req' = Proceed(s, err, "saveReturn",
                          [req[s] EXCEPT !.book = FindBook(req[s].bookId),
                                         !.reader = FindReader(req[s].readerId)])
    /\ UNCHANGED <<revision, clock, books, readers, rentals>>

\* rental.returnBook(fineAmount, notes): the save writes the modified paths
ReturnSave(s) ==
    /\ req[s].op = "returnBook" /\ req[s].pc = "saveReturn"
    /\ \E ok \in SaveOutcomes :
         LET doc == returnBookDoc(req[s].rental, req[s].fine, clock)
             saved == Timestamps(RentalPreSave(doc, clock), clock)
             err == IF ~RentalValidReturn(doc) THEN "ValidationError"
                    ELSE IF ~ok THEN "StoreError"
                    ELSE "none"
         IN  /\ rentals' = IF err = "none"
                           THEN [rentals EXCEPT ![req[s].rentalId] =
                                   [@ EXCEPT !.actualReturnDate = saved.actualReturnDate,
                                             !.fineAmount = saved.fineAmount,
                                             !.status = saved.status,
                                             !.totalAmount = saved.totalAmount,
                                             !.updatedAt = saved.updatedAt]]
                           ELSE rentals
             /\ req' = Proceed(s, err, "returnCopy", req[s])
    /\ UNCHANGED <<revision, clock, books, readers>>

ReturnCopyRollback(s) ==
    /\ req[s].op = "returnBook" /\ req[s].pc = "returnCopy"
    /\ \E ok \in SaveOutcomes :
         /\ books' = BooksAfterReturnCopy(req[s].bookId, req[s].book, ok)
         /\ rentals' = IF returnCopyError(req[s].book, ok) = "none" THEN rentals
                       ELSE [rentals EXCEPT ![req[s].rentalId] = req[s].rental]
         /\ req' = Proceed(s, returnCopyError(req[s].book, ok), "respond", req[s])
    /\ UNCHANGED <<revision, clock, readers>>

\* rental.book.returnCopy() on the populated document
ReturnCopy(s) ==
    /\ req[s].op = "returnBook" /\ req[s].pc = "returnCopy"
    /\ \E ok \in SaveOutcomes :
         /\ books' = BooksAfterReturnCopy(req[s].bookId, req[s].book, ok)
         /\ req' = Proceed(s, returnCopyError(req[s].book, ok), "respond", req[s])
    /\ UNCHANGED <<revision, clock, readers, rentals>>

\* Time passes between requests; the answers of the earlier ones are gone
Tick ==
    /\ \A s \in Slots : Free(s)
    /\ clock < MaxClock * TickMs
    /\ clock' = clock + TickMs
    /\ req' = [s \in Slots |-> IdleReq]
    /\ UNCHANGED <<revision, books, readers, rentals>>

-----------------------------------------------------------------------------
(* What a state says of a rental and of a finished request *)

Unreturned(i) == rentals[i].actualReturnDate = NoDate

FinishedCreate(s) == req[s].op = "createRental" /\ req[s].pc = "done"

FinishedReturn(s) == req[s].op = "returnBook" /\ req[s].pc = "done"

-----------------------------------------------------------------------------
(* Rentals, requests one at a time.  The store holds one book, as           *)
(* createBook leaves it, a reader and a deleted reader.                     *)

SeedBook(total, price) ==
    [exists |-> TRUE, title |-> 1, depositAmount |-> 10000,
     rentalPricePerDay |-> price, availableCopies |-> total, totalCopies |-> total,
     isActive |-> TRUE]

SeedReader(phone, category, active) ==
    [exists |-> TRUE, phone |-> phone, category |-> category,
     discountPercentage |-> DiscountFor(category), isActive |-> active]

InitSeq ==
    /\ revision \in Revisions
    /\ clock = 0
    /\ \E n \in {1, 2} :
         books = [b \in BookIds |-> IF b = 1 THEN SeedBook(n, 2500) ELSE NoBook]
    /\ \E c \in {"regular", "student"} :
         readers = [r \in ReaderIds |->
                      IF r = 1 THEN SeedReader(1, c, TRUE)
                      ELSE IF r = 2 THEN SeedReader(2, "regular", FALSE)
                      ELSE NoReader]
    /\ rentals = <<>>
    /\ req = [s \in Slots |-> IdleReq]

BookInputs == {0, 1}
ReaderInputs == {1, 2}
RentalInputs(cap) == 1..cap
FineInputs == FineSet \cup {Undefined}

Handler(s) ==
    \/ CreateFindReader(s)
    \/ CreateCount(s)
    \/ CreateSaveRental(s)
    \/ CreateRentCopy(s)
    \/ ReturnPopulate(s)
    \/ ReturnSave(s)
    \/ ReturnCopy(s)

NextSeq ==
    \/ \E b \in BookInputs, r \in ReaderInputs, e \in ExpectedOffsets :
         CreateRental(1, b, r, e, MaxRentals)
    \/ \E id \in RentalInputs(MaxRentals), f \in FineInputs : ReturnBook(1, id, f)
    \/ Handler(1)
    \/ Tick

SpecSeq == InitSeq /\ [][NextSeq]_vars

-----------------------------------------------------------------------------
(* Rentals up to the limit, requests one at a time at one instant.  The     *)
(* book has one copy more than a reader may hold and may be deleted; the   *)
(* reader gets no discount, a second reader is deleted.                     *)

InitLimit ==
    /\ revision \in Revisions
    /\ clock = 0
    /\ books = [b \in BookIds |-> SeedBook(RentalLimit + 1, 2500)]
    /\ readers = [r \in ReaderIds |-> SeedReader(r, "regular", r = 1)]
    /\ rentals = <<>>
    /\ req = [s \in Slots |-> IdleReq]

\* expectedReturnDate 18 h before and 18 h after the request
LimitOffsets == {0 - ((3 * MsPerDay) \div 4), (3 * MsPerDay) \div 4}

NextLimit ==
    \/ \E b \in BookInputs, r \in ReaderInputs, e \in LimitOffsets :
         CreateRental(1, b, r, e, RentalLimit + 1)
    \/ DeleteBook(1)
    \/ \E id \in RentalInputs(RentalLimit + 1) : ReturnBook(1, id, 0)
    \/ Handler(1)

SpecLimit == InitLimit /\ [][NextLimit]_vars

-----------------------------------------------------------------------------
(* Rentals, two requests at a time: the segments of the two handlers       *)
(* interleave in every order.  Each slot gets to insert one rental.         *)

Init ==
    /\ revision \in Revisions
    /\ clock = 0
    /\ \E n \in {1, 2} :
         books = [b \in BookIds |-> SeedBook(n, 2500)]
    /\ readers = [r \in ReaderIds |->
                    IF r = 1 THEN SeedReader(1, "student", TRUE)
                    ELSE SeedReader(2, "regular", TRUE)]
    /\ rentals = <<>>
    /\ req = [s \in Slots |-> IdleReq]

Next ==
    \/ \E s \in Slots, b \in BookInputs, r \in ReaderInputs :
         CreateRental(s, b, r, (3 * MsPerDay) \div 4, Cardinality(Slots))
    \/ \E s \in Slots, id \in RentalInputs(Cardinality(Slots)) : ReturnBook(s, id, 0)
    \/ \E s \in Slots : Handler(s)

Spec == Init /\ [][Next]_vars

-----------------------------------------------------------------------------
(* Rentals while the book and the reader are edited, requests one at a     *)
(* time: the price and the deposit of the book and the category of the     *)
(* reader change between a create and a return.                            *)

InitAdmin ==
    /\ revision \in Revisions
    /\ clock = 0
    /\ books = [b \in BookIds |-> SeedBook(1, 2500)]
    /\ readers = [r \in ReaderIds |-> SeedReader(r, "regular", TRUE)]
    /\ rentals = <<>>
    /\ req = [s \in Slots |-> IdleReq]

NextAdmin ==
    \/ CreateRental(1, 1, 1, (3 * MsPerDay) \div 4, MaxRentals)
    \/ \E id \in RentalInputs(MaxRentals) : ReturnBook(1, id, 0)
    \/ Handler(1)
    \/ Tick
    \/ \E u \in {<<20000, 5000>>, <<Undefined, Undefined>>} :
         UpdateBook(1, u[1], u[2], Undefined, Undefined, Undefined)
    \/ \E c \in {"senior", "undefined"} :
         UpdateReader(1, Undefined, c, Undefined, Undefined)

SpecAdmin == InitAdmin /\ [][NextAdmin]_vars

-----------------------------------------------------------------------------
(* A rental is created and then returned, one request after the other.     *)
(* The create is kept in slot 1 and the return of the rental it made in    *)
(* slot 2; half a day may pass at a time.                                   *)

HalfDay == MsPerDay \div 2

\* Time passes between two requests
Elapse ==
    /\ \A s \in Slots : Free(s)
    /\ clock < MaxClock * HalfDay
    /\ clock' = clock + HalfDay
    /\ UNCHANGED <<revision, books, readers, rentals, req>>

NextRound ==
    \/ /\ Free(2)
       /\ \E r \in ReaderInputs, e \in LimitOffsets : CreateRental(1, 1, r, e, MaxRentals)
    \/ /\ Free(1) /\ FinishedCreate(1) /\ req[1].rentalId \in DOMAIN rentals
       /\ \E f \in {0, 1000} : ReturnBook(2, req[1].rentalId, f)
    \/ \E s \in Slots : Handler(s)
    \/ Elapse

SpecRound == InitSeq /\ [][NextRound]_vars

-----------------------------------------------------------------------------
(* Rental controller: the read handlers.  Each answers from the stored      *)
(* documents; the ids of the rentals it lists are kept in the answer.       *)

\* Rental.find(query) for a query on status and reader; "" and 0 leave the
\* path out of the query
findRentals(status, readerId) ==
    {i \in DOMAIN rentals :
        /\ status # "" => rentals[i].status = status
        /\ readerId # 0 => rentals[i].reader = readerId}

\* rentalSchema.statics.findActive
findActive == findRentals("active", 0)

\* rentalSchema.statics.findOverdue
findOverdue == findRentals("overdue", 0)

RECURSIVE SumTotalAmount(_)
\* $group: { totalRevenue: { $sum: '$totalAmount' } }
SumTotalAmount(ids) ==
    IF ids = {} THEN 0
    ELSE LET i == CHOOSE x \in ids : TRUE
         IN  rentals[i].totalAmount + SumTotalAmount(ids \ {i})

\* The answer of a read handler
Listed(op, query, readerId, ids) ==
    [Done(op, "respond", "none", 0, readerId, 0, Cardinality(ids), 0)
     EXCEPT !.query = query, !.listed = ids]

\* getAllRentals with its status filter (a falsy status leaves it out)
GetAllRentals(status) ==
    /\ Free(1)
    /\ req' = [req EXCEPT ![1] =
                 Listed("getAllRentals", status, 0, findRentals(status, 0))]
    /\ UNCHANGED <<revision, clock, books, readers, rentals>>

\* getActiveRentals
GetActiveRentals ==
    /\ Free(1)
    /\ req' = [req EXCEPT ![1] = Listed("getActiveRentals", "active", 0, findActive)]
    /\ UNCHANGED <<revision, clock, books, readers, rentals>>

\* getOverdueRentals
GetOverdueRentals ==
    /\ Free(1)
    /\ req' = [req EXCEPT ![1] = Listed("getOverdueRentals", "overdue", 0, findOverdue)]
    /\ UNCHANGED <<revision, clock, books, readers, rentals>>

\* getReaderRentals with its status filter ('all' leaves it out)
GetReaderRentals(readerId, status) ==
    /\ Free(1)
    /\ req' = [req EXCEPT ![1] =
                 Listed("getReaderRentals", status, readerId,
                        findRentals(IF status = "all" THEN "" ELSE status, readerId))]
    /\ UNCHANGED <<revision, clock, books, readers, rentals>>

\* getRentalStats: the third count is of the returned rentals in one copy of
\* the controller and of all rentals in the other
GetRentalStats ==
    /\ Free(1)
    /\ req' = [req EXCEPT ![1] =
                 [Done("getRentalStats", "respond", "none", 0, 0, 0, 0, 0)
                  EXCEPT !.stats =
                    [activeRentals |-> Cardinality(findRentals("active", 0)),
                     overdueRentals |-> Cardinality(findRentals("overdue", 0)),
                     completedRentals |-> IF revision = "inline"
                                          THEN Cardinality(findRentals("returned", 0))
                                          ELSE Undefined,
                     totalRentals |-> IF revision = "inline" THEN Undefined
                                      ELSE Cardinality(findRentals("", 0)),
                     totalRevenue |-> SumTotalAmount(findRentals("returned", 0))]]]
    /\ UNCHANGED <<revision, clock, books, readers, rentals>>

StatusFilters == {"", "active", "overdue", "returned"}

\* One book, one reader; rentals due 18 h before or after their issue
InitRead ==
    /\ revision \in Revisions
    /\ clock = 0
    /\ books = [b \in BookIds |-> SeedBook(2, 2500)]
    /\ readers = [r \in ReaderIds |-> SeedReader(r, "regular", TRUE)]
    /\ rentals = <<>>
    /\ req = [s \in Slots |-> IdleReq]

NextRead ==
    \/ \E e \in LimitOffsets : CreateRental(1, 1, 1, e, MaxRentals + 1)
    \/ \E id \in RentalInputs(MaxRentals + 1) : ReturnBook(1, id, 0)
    \/ Handler(1)
    \/ Tick
    \/ \E f \in StatusFilters : GetAllRentals(f)
    \/ GetActiveRentals
    \/ GetOverdueRentals
    \/ \E r \in ReaderIds, f \in {"all", "active", "overdue"} : GetReaderRentals(r, f)
    \/ GetRentalStats

SpecRead == InitRead /\ [][NextRead]_vars

-----------------------------------------------------------------------------
(* Two createRental requests interleaved for a reader who holds one rental *)
(* less than the limit, on a book with copies to spare.                    *)

\* A rental as createRental stored it at time 0, due in 18 h, undiscounted
SeedRental(b, r) ==
    [book |-> b, reader |-> r, issueDate |-> 0,
     expectedReturnDate |-> (3 * MsPerDay) \div 4, actualReturnDate |-> NoDate,
     depositAmount |-> 10000, rentalPricePerDay |-> 2500, fineAmount |-> 0,
     discountAmount |-> 0, totalAmount |-> 2500, status |-> "active", updatedAt |-> 0]

InitRace ==
    /\ revision \in Revisions
    /\ clock = 0
    /\ books = [b \in BookIds |->
                  [SeedBook(RentalLimit + 1, 2500) EXCEPT !.availableCopies = 2]]
    /\ readers = [r \in ReaderIds |-> SeedReader(r, "regular", TRUE)]
    /\ rentals = [i \in 1..(RentalLimit - 1) |-> SeedRental(1, 1)]
    /\ req = [s \in Slots |-> IdleReq]

NextRace ==
    \/ \E s \in Slots : CreateRental(s, 1, 1, (3 * MsPerDay) \div 4, RentalLimit + 1)
    \/ \E s \in Slots : CreateFindReader(s)
    \/ \E s \in Slots : CreateCount(s)
    \/ \E s \in Slots : CreateSaveRental(s)
    \/ \E s \in Slots : CreateRentCopy(s)

SpecRace == InitRace /\ [][NextRace]_vars

-----------------------------------------------------------------------------
(* Two returnBook requests interleaved for the one rental of a book with   *)
(* one copy; the requests carry different fines.                            *)

InitReturns ==
    /\ revision \in Revisions
    /\ clock = 0
    /\ books = [b \in BookIds |-> [SeedBook(1, 2500) EXCEPT !.availableCopies = 0]]
    /\ readers = [r \in ReaderIds |-> SeedReader(r, "regular", TRUE)]
    /\ rentals = <<SeedRental(1, 1)>>
    /\ req = [s \in Slots |-> IdleReq]

NextReturns ==
    \/ \E s \in Slots, f \in {0, 1000} : ReturnBook(s, 1, f)
    \/ \E s \in Slots : ReturnPopulate(s)
    \/ \E s \in Slots : ReturnSave(s)
    \/ \E s \in Slots : ReturnCopy(s)

SpecReturns == InitReturns /\ [][NextReturns]_vars

-----------------------------------------------------------------------------
(* The return of a rental whose copy was taken, after edits of the counters *)
(* of its book or its deletion; requests one at a time.                     *)

StockInputs == {Undefined, 0, 1, 2}

NextStock ==
    \/ ReturnBook(1, 1, 0)
    \/ ReturnPopulate(1)
    \/ ReturnSave(1)
    \/ ReturnCopy(1)
    \/ \E n \in StockInputs, a \in StockInputs :
         UpdateBook(1, Undefined, Undefined, n, a, Undefined)
    \/ DeleteBook(1)

SpecStock == InitReturns /\ [][NextStock]_vars

-----------------------------------------------------------------------------
(* Returns whose body carries no fineAmount, requests one at a time; the    *)
(* rentals are due 18 h before or after their issue and time passes 36 h.   *)

NextLate ==
    \/ \E r \in ReaderInputs, e \in LimitOffsets : CreateRental(1, 1, r, e, MaxRentals)
    \/ \E id \in RentalInputs(MaxRentals) : ReturnBook(1, id, Undefined)
    \/ Handler(1)
    \/ Tick

SpecLate == InitSeq /\ [][NextLate]_vars

-----------------------------------------------------------------------------
(* Error middleware.  An error object is its status, statusCode, name, code *)
(* and message; a Mongoose ValidationError carries its errors map and a     *)
(* duplicate-key error its keyValue.                                        *)

\* The name http-errors gives the error of a status
HttpName(status) ==
    CASE status = 400 -> "BadRequestError"
      [] status = 401 -> "UnauthorizedError"
      [] status = 404 -> "NotFoundError"
      [] status = 409 -> "ConflictError"
      [] OTHER -> "InternalServerError"

\* createError(status, message) of http-errors
createError(status, message) ==
    [status |-> status, statusCode |-> status, name |-> HttpName(status),
     code |-> 0, message |-> message]

\* errorHandler: the response it sends for an error.  Each `if` looks at the
\* error as the ones before it left it.
errorHandler(error) ==
    LET e0 == IF error.status = 0 /\ error.statusCode = 0
              THEN createError(500, IF error.message = "" THEN "Internal Server Error"
                                    ELSE error.message)
              ELSE error
        e1 == IF e0.name = "ValidationError"
              THEN createError(400, "Validation Error: messages") ELSE e0
        e2 == IF e1.name = "CastError" THEN createError(400, "Invalid path: value") ELSE e1
        e3 == IF e2.code = 11000
              THEN createError(409, "Duplicate value for field: value") ELSE e2
        e4 == IF e3.name = "JsonWebTokenError" THEN createError(401, "Invalid token") ELSE e3
        err == IF e4.name = "TokenExpiredError" THEN createError(401, "Token expired") ELSE e4
    IN  [status |-> IF err.status # 0 THEN err.status
                    ELSE IF err.statusCode # 0 THEN err.statusCode ELSE 500,
         message |-> IF err.message # "" THEN err.message ELSE "Internal Server Error"]

ErrorNames == {"Error", "NotFoundError", "ValidationError", "CastError",
               "MongoServerError", "JsonWebTokenError", "TokenExpiredError"}

\* The errors a handler may pass on
ErrorInputs ==
    [status : {0, 404}, statusCode : {0, 400}, name : ErrorNames,
     code : {0, 11000}, message : {"", "own"}]

\* A request has failed with some error, not yet handled
InitError ==
    /\ revision \in Revisions
    /\ clock = 0
    /\ books = [b \in BookIds |-> NoBook]
    /\ readers = [r \in ReaderIds |-> NoReader]
    /\ rentals = <<>>
    /\ \E e \in ErrorInputs :
         req = [s \in Slots |->
                  IF s = 1 THEN [IdleReq EXCEPT !.op = "failed", !.pc = "thrown", !.error = e]
                  ELSE IdleReq]

\* app.use(errorHandler): the failed request is answered
HandleError(s) ==
    /\ req[s].pc = "thrown"
    /\ req' = [req EXCEPT ![s] = [req[s] EXCEPT !.pc = "done", !.at = "errorHandler",
                                                !.response = errorHandler(req[s].error)]]
    /\ UNCHANGED <<revision, clock, books, readers, rentals>>

NextError == \E s \in Slots : HandleError(s)

SpecError == InitError /\ [][NextError]_vars

-----------------------------------------------------------------------------
(* Properties *)


\* C1: two createRental requests that both read the book while its last
\* copy was available (the book has one copy and nothing was returned) and
\* that met no validation or store error: exactly one succeeds, the other
\* fails as book-unavailable, availableCopies ends at 0 and one rental exists.
C1_LastCopyOnce ==
    (/\ FinishedCreate(1) /\ FinishedCreate(2)
     /\ req[1].bookId = 1 /\ req[2].bookId = 1
     /\ books[1].totalCopies = 1
     /\ req[1].before = 1 /\ req[2].before = 1
     /\ \A i \in DOMAIN rentals : Unreturned(i)
     /\ \A s \in Slots : req[s].err \in {"none", "BookNotAvailable", "NoCopiesAvailable"})
    => /\ Cardinality({s \in Slots : req[s].err = "none"}) = 1
       /\ books[1].availableCopies = 0
       /\ Len(rentals) = 1

\* Both requests were answered with success on a book with one copy
C1_BothSucceeded ==
    /\ FinishedCreate(1) /\ FinishedCreate(2)
    /\ req[1].err = "none" /\ req[2].err = "none"
    /\ req[1].before = 1 /\ req[2].before = 1
    /\ books[1].totalCopies = 1 /\ books[1].availableCopies = 0
    /\ Len(rentals) = 2 /\ \A i \in DOMAIN rentals : Unreturned(i)

\* C2: every stored book has 0 <= availableCopies <= totalCopies, whatever
\* rentCopy and returnCopy calls were made on it.
C2_CopiesWithinBounds ==
    \A b \in BookIds :
        books[b].exists =>
            /\ 0 <= books[b].availableCopies
            /\ books[b].availableCopies <= books[b].totalCopies

\* returnCopy has brought a book with several copies back to all available
C2_Witness ==
    /\ req[1].op = "returnCopy" /\ req[1].err = "none"
    /\ books[1].totalCopies > 1
    /\ books[1].availableCopies = books[1].totalCopies

\* C3: rentCopy on a book with no available copy, or an inactive book, fails
\* with 'No copies available' and the stored availableCopies is unchanged.
C3_RentCopyRefused ==
    (/\ req[1].op = "rentCopy" /\ req[1].pc = "done"
     /\ (req[1].book.availableCopies = 0 \/ ~req[1].book.isActive))
    => /\ req[1].err = "NoCopiesAvailable"
       /\ books[req[1].bookId].availableCopies = req[1].before

\* rentCopy was refused on an inactive book that has copies
C3_Witness ==
    /\ req[1].op = "rentCopy" /\ req[1].err = "NoCopiesAvailable"
    /\ ~req[1].book.isActive /\ req[1].book.availableCopies > 0
    /\ books[1].availableCopies = req[1].before

\* C4: returnCopy on a book whose availableCopies equals totalCopies fails
\* with 'Cannot return more copies than total' and the stored
\* availableCopies is unchanged.
C4_ReturnCopyRefused ==
    (/\ req[1].op = "returnCopy" /\ req[1].pc = "done"
     /\ req[1].book.availableCopies = req[1].book.totalCopies)
    => /\ req[1].err = "CannotReturnMore"
       /\ books[req[1].bookId].availableCopies = req[1].before

\* returnCopy was refused on a full book
C4_Witness ==
    /\ req[1].op = "returnCopy" /\ req[1].err = "CannotReturnMore"
    /\ req[1].book.availableCopies = req[1].book.totalCopies
    /\ books[1].availableCopies = books[1].totalCopies

\* C5: with requests one at a time, no reader holds more than 3 rentals
\* that have no actualReturnDate.
C5_AtMostThreeUnreturned ==
    \A r \in ReaderIds :
        Cardinality({i \in DOMAIN rentals : rentals[i].reader = r /\ Unreturned(i)})
            <= 3

\* A fourth createRental succeeded for a reader whose three unreturned
\* rentals are stored as overdue
C5_FourthAccepted ==
    /\ FinishedCreate(1) /\ req[1].err = "none" /\ req[1].rentalId = 4
    /\ \A i \in DOMAIN rentals : rentals[i].reader = req[1].readerId /\ Unreturned(i)
    /\ \A i \in 1..3 : rentals[i].status = "overdue"

\* C6: a return of a rental that already has its actualReturnDate fails as
\* already returned; the rental is as the first return left it and the
\* book's availableCopies is not incremented again.
C6_SecondReturnRefused ==
    \A s \in Slots :
        (FinishedReturn(s) /\ req[s].rental.actualReturnDate # NoDate)
        => /\ req[s].err = "AlreadyReturned"
           /\ rentals[req[s].rentalId] = req[s].rental
           /\ books[req[s].bookId].availableCopies = req[s].before

\* A second return was refused
C6_Witness ==
    /\ FinishedReturn(1) /\ req[1].err = "AlreadyReturned"
    /\ req[1].rental.actualReturnDate # NoDate
    /\ rentals[req[1].rentalId].status = "returned"

\* C7: a createRental whose copy allocation fails leaves no rental record
\* of that request in the store.
C7_FailedAllocationNoRental ==
    \A s \in Slots :
        (FinishedCreate(s) /\ req[s].at = "rentCopy" /\ req[s].err # "none")
        => req[s].rentalId \notin DOMAIN rentals

\* The store rejected the save of rentCopy: the rental is stored, the copy
\* is not allocated
C7_RentalWithoutCopy ==
    /\ FinishedCreate(1) /\ req[1].at = "rentCopy" /\ req[1].err = "StoreError"
    /\ req[1].rentalId \in DOMAIN rentals
    /\ Unreturned(req[1].rentalId)
    /\ books[1].availableCopies = req[1].before

C9_DiscountFollowsCategory ==
    \A r \in ReaderIds :
        readers[r].exists =>
            readers[r].discountPercentage =
                (CASE readers[r].category = "student" -> 15
                   [] readers[r].category = "senior" -> 20
                   [] readers[r].category = "employee" -> 10
                   [] readers[r].category = "regular" -> 0)

\* updateReader, sent a discountPercentage of 50, has saved a senior
C9_Witness ==
    /\ req[1].op = "updateReader" /\ req[1].err = "none" /\ req[1].given = 50
    /\ readers[req[1].readerId].category = "senior"
    /\ readers[req[1].readerId].discountPercentage = 20

\* C10: every stored rental has discountAmount = baseCost * discountPercentage
\* / 100 >= 0, with baseCost = rentalPricePerDay * max(1, ceil((expectedReturnDate
\* - issue time) / 1 day)).
C10_DiscountAmount ==
    \A i \in DOMAIN rentals :
        LET baseCost == rentals[i].rentalPricePerDay
                        * Max(1, CeilDiv(rentals[i].expectedReturnDate
                                         - rentals[i].issueDate, MsPerDay))
        IN  /\ rentals[i].discountAmount
                 = (baseCost * readers[rentals[i].reader].discountPercentage) \div 100
            /\ rentals[i].discountAmount >= 0

\* The controller with helpers has stored a student's rental, due 18 h
\* before its issue, with no discount
C10_ZeroDays ==
    /\ revision = "helpers"
    /\ \E i \in DOMAIN rentals :
         /\ readers[rentals[i].reader].discountPercentage = 15
         /\ rentals[i].rentalPricePerDay = 2500
         /\ rentals[i].expectedReturnDate < rentals[i].issueDate
         /\ rentals[i].discountAmount = 0

\* C11: every stored rental has totalAmount = rentalPricePerDay * rentalDays
\* + fineAmount - discountAmount, with rentalDays = max(1, ceil((endDate -
\* issueDate) / 1 day)) and endDate its actualReturnDate if set, else the
\* time of its last save.
C11_TotalAmount ==
    \A i \in DOMAIN rentals :
        LET endDate == IF rentals[i].actualReturnDate # NoDate
                       THEN rentals[i].actualReturnDate ELSE rentals[i].updatedAt
            rentalDays == Max(1, CeilDiv(endDate - rentals[i].issueDate, MsPerDay))
        IN  rentals[i].totalAmount
              = (rentals[i].rentalPricePerDay * rentalDays) + rentals[i].fineAmount
                - rentals[i].discountAmount

\* A rental returned 36 h after its issue with a fine: two days are charged
C11_Witness ==
    /\ FinishedReturn(1) /\ req[1].err = "none"
    /\ LET r == rentals[req[1].rentalId]
       IN  /\ r.actualReturnDate = r.issueDate + TickMs
           /\ r.fineAmount = 1000
           /\ r.totalAmount = (2 * r.rentalPricePerDay) + 1000 - r.discountAmount

\* C12: every stored rental has, as of its last save, status 'returned' iff
\* its actualReturnDate is set; otherwise 'overdue' iff that save was later
\* than its expectedReturnDate; otherwise 'active'.
C12_StatusAtSave ==
    \A i \in DOMAIN rentals :
        rentals[i].status =
            IF rentals[i].actualReturnDate # NoDate THEN "returned"
            ELSE IF rentals[i].updatedAt > rentals[i].expectedReturnDate THEN "overdue"
            ELSE "active"

\* A rental stored as overdue by its creation was returned
C12_Witness ==
    /\ FinishedReturn(1) /\ req[1].err = "none"
    /\ req[1].rental.status = "overdue"
    /\ rentals[req[1].rentalId].status = "returned"
    /\ rentals[req[1].rentalId].actualReturnDate # NoDate

\* The unreturned rentals the clock has passed the expectedReturnDate of
LiveOverdue ==
    {i \in DOMAIN rentals : Unreturned(i) /\ clock > rentals[i].expectedReturnDate}

\* C13: every read reports the live status: the answers of list-overdue and
\* of the overdue filter hold every unreturned rental that is past its
\* expectedReturnDate, the answers of list-active and of the active filter
\* hold none of them, and the statistics count them as overdue, not active.
C13_ReadsReportLiveStatus ==
    (req[1].pc = "done" /\ req[1].at = "respond") =>
        /\ (req[1].op \in {"getOverdueRentals", "getAllRentals"} /\ req[1].query = "overdue")
             => LiveOverdue \subseteq req[1].listed
        /\ (req[1].op = "getReaderRentals" /\ req[1].query = "overdue")
             => {i \in LiveOverdue : rentals[i].reader = req[1].readerId}
                  \subseteq req[1].listed
        /\ (req[1].op \in {"getActiveRentals", "getAllRentals", "getReaderRentals"}
             /\ req[1].query = "active")
             => req[1].listed \cap LiveOverdue = {}
        /\ req[1].op = "getRentalStats"
             => /\ req[1].stats.overdueRentals = Cardinality(LiveOverdue)
                /\ req[1].stats.activeRentals
                     = Cardinality({i \in DOMAIN rentals : Unreturned(i)} \ LiveOverdue)

\* list-overdue answered with no rental while an unreturned rental, stored
\* as active at its creation, is past its expectedReturnDate
C13_OverdueNotListed ==
    /\ req[1].op = "getOverdueRentals" /\ req[1].pc = "done"
    /\ req[1].listed = {}
    /\ \E i \in LiveOverdue : rentals[i].status = "active"

\* C14: 'returned' is terminal.  In every step a rental stored as returned
\* keeps its status and its actualReturnDate, and a rental's status changes
\* only from active or overdue to returned, in the save of a return.
C14_ReturnedIsTerminal ==
    [][\A i \in DOMAIN rentals :
         /\ i \in DOMAIN rentals'
         /\ rentals[i].status = "returned"
              => /\ rentals'[i].status = "returned"
                 /\ rentals'[i].actualReturnDate = rentals[i].actualReturnDate
         /\ rentals'[i].status # rentals[i].status
              => /\ rentals[i].status \in {"active", "overdue"}
                 /\ rentals'[i].status = "returned"
                 /\ req[1].op = "returnBook" /\ req[1].pc = "saveReturn"
                 /\ req[1].rentalId = i]_vars

\* A returned rental is in the store after an update of the book that came
\* later than its return
C14_Witness ==
    /\ req[1].op = "updateBook" /\ req[1].pc = "done" /\ req[1].err = "none"
    /\ \E i \in DOMAIN rentals :
         /\ rentals[i].status = "returned"
         /\ rentals[i].actualReturnDate # NoDate
         /\ rentals[i].actualReturnDate < clock

\* C17: snapshot pricing.  In every step, whatever updateBook and
\* updateReader change, each stored rental keeps its depositAmount,
\* rentalPricePerDay and discountAmount, and a returned rental's totalAmount
\* is computed from the rental's own rentalPricePerDay and discountAmount.
C17_SnapshotPricing ==
    [][\A i \in DOMAIN rentals :
         /\ i \in DOMAIN rentals'
         /\ rentals'[i].depositAmount = rentals[i].depositAmount
         /\ rentals'[i].rentalPricePerDay = rentals[i].rentalPricePerDay
         /\ rentals'[i].discountAmount = rentals[i].discountAmount
         /\ rentals'[i].actualReturnDate # NoDate
              => rentals'[i].totalAmount
                   = (rentals[i].rentalPricePerDay
                        * Max(1, CeilDiv(rentals'[i].actualReturnDate - rentals[i].issueDate,
                                         MsPerDay)))
                     + rentals'[i].fineAmount - rentals[i].discountAmount]_vars

\* A rental was returned after the book's price and deposit and the
\* reader's category were changed; it is charged at its own price
C17_Witness ==
    /\ FinishedReturn(1) /\ req[1].err = "none"
    /\ LET r == rentals[req[1].rentalId]
       IN  /\ books[r.book].rentalPricePerDay = 5000 /\ r.rentalPricePerDay = 2500
           /\ books[r.book].depositAmount = 20000 /\ r.depositAmount = 10000
           /\ readers[r.reader].discountPercentage = 20 /\ r.discountAmount = 0
           /\ r.actualReturnDate = r.issueDate + TickMs
           /\ r.totalAmount = (2 * 2500) + r.fineAmount

\* C15: when the release of the copy fails in a return (the book's
\* availableCopies is what it was when the request began), the request is
\* answered with the error and the rental stays returned, with the
\* actualReturnDate, fineAmount and totalAmount of this return.
C15_FailedReleaseKeepsReturn ==
    \A s \in Slots :
        (/\ FinishedReturn(s) /\ req[s].at = "returnCopy"
         /\ books[req[s].bookId].availableCopies = req[s].before)
        => /\ req[s].err \in {"CannotReturnMore", "StoreError"}
           /\ LET r == rentals[req[s].rentalId]
              IN  /\ r.status = "returned"
                  /\ r.actualReturnDate = clock
                  /\ r.fineAmount = req[s].fine
                  /\ r.totalAmount
                       = (r.rentalPricePerDay
                            * Max(1, CeilDiv(clock - r.issueDate, MsPerDay)))
                         + req[s].fine - r.discountAmount

\* returnCopy threw on a book with all its copies available: the rental had
\* been stored without a copy
C15_Witness ==
    /\ FinishedReturn(1) /\ req[1].at = "returnCopy"
    /\ req[1].err = "CannotReturnMore"
    /\ books[req[1].bookId].availableCopies = books[req[1].bookId].totalCopies
    /\ rentals[req[1].rentalId].status = "returned"
    /\ rentals[req[1].rentalId].actualReturnDate = clock

\* C16 as stated: a return of an unreturned rental that the store does not
\* reject stores fineAmount = max(0, supplied fineAmount) and the rental is
\* returned, also when the supplied fine is negative.
C16_FineClamped ==
    \A s \in Slots :
        (/\ FinishedReturn(s) /\ req[s].rentalId \in DOMAIN rentals
         /\ req[s].rental.actualReturnDate = NoDate
         /\ req[s].err # "StoreError")
        => /\ rentals[req[s].rentalId].status = "returned"
           /\ rentals[req[s].rentalId].fineAmount = Max(0, req[s].fine)

\* C16, amended: a return of an unreturned rental with a negative fine fails
\* with a validation error and leaves the rental and the book's
\* availableCopies as they were; a return that is saved stores the supplied
\* fineAmount (0 when none is supplied); no stored fineAmount is negative.
C16_FineStoredOrRefused ==
    /\ \A i \in DOMAIN rentals : rentals[i].fineAmount >= 0
    /\ \A s \in Slots :
        (/\ FinishedReturn(s) /\ req[s].rentalId \in DOMAIN rentals
         /\ req[s].rental.actualReturnDate = NoDate)
        => /\ req[s].fine < 0
                => /\ req[s].err = "ValidationError"
                   /\ rentals[req[s].rentalId] = req[s].rental
                   /\ books[req[s].bookId].availableCopies = req[s].before
           /\ (req[s].fine >= 0 /\ req[s].at = "returnCopy")
                => /\ rentals[req[s].rentalId].status = "returned"
                   /\ rentals[req[s].rentalId].fineAmount = req[s].fine

\* A return with a negative fine was refused; the rental is still unreturned
C16_Witness ==
    /\ FinishedReturn(1) /\ req[1].fine < 0
    /\ req[1].err = "ValidationError" /\ req[1].at = "saveReturn"
    /\ Unreturned(req[1].rentalId)
    /\ rentals[req[1].rentalId].fineAmount = 0

\* C18: round trip.  A rental created and then returned within a day with
\* fineAmount 0 is returned with totalAmount = rentalPricePerDay * 1 -
\* discountAmount, and the book's availableCopies is what it was before the
\* create.
C18_RoundTrip ==
    (/\ FinishedCreate(1) /\ req[1].err = "none"
     /\ FinishedReturn(2) /\ req[2].err = "none"
     /\ req[2].rentalId = req[1].rentalId
     /\ req[2].fine = 0
     /\ rentals[req[2].rentalId].actualReturnDate
           - rentals[req[2].rentalId].issueDate <= MsPerDay)
    => LET r == rentals[req[2].rentalId]
       IN  /\ r.status = "returned"
           /\ r.totalAmount = r.rentalPricePerDay - r.discountAmount
           /\ books[r.book].availableCopies = req[1].before

\* A student's rental was returned half a day after its issue with no fine
C18_Witness ==
    /\ FinishedCreate(1) /\ req[1].err = "none"
    /\ FinishedReturn(2) /\ req[2].err = "none" /\ req[2].fine = 0
    /\ req[2].rentalId = req[1].rentalId
    /\ LET r == rentals[req[2].rentalId]
       IN  /\ r.actualReturnDate = r.issueDate + HalfDay
           /\ readers[r.reader].discountPercentage = 15
           /\ r.totalAmount = r.rentalPricePerDay - r.discountAmount
           /\ books[r.book].availableCopies = books[r.book].totalCopies

\* C19: the rental stored by a createRental that succeeded has status
\* 'active', fineAmount 0, no actualReturnDate, issueDate the time of the
\* request, and the depositAmount and rentalPricePerDay of the book,
\* whatever expectedReturnDate the request carried.
C19_CreatedRental ==
    \A s \in Slots :
        (FinishedCreate(s) /\ req[s].err = "none")
        => LET r == rentals[req[s].rentalId]
           IN  /\ r.status = "active"
               /\ r.fineAmount = 0
               /\ r.actualReturnDate = NoDate
               /\ r.issueDate = clock
               /\ r.depositAmount = books[r.book].depositAmount
               /\ r.rentalPricePerDay = books[r.book].rentalPricePerDay

\* A createRental with an expectedReturnDate before the request succeeded;
\* the rental it stored is overdue
C19_CreatedOverdue ==
    /\ FinishedCreate(1) /\ req[1].err = "none"
    /\ rentals[req[1].rentalId].issueDate = clock
    /\ rentals[req[1].rentalId].expectedReturnDate < clock
    /\ rentals[req[1].rentalId].status = "overdue"

\* The errors of the precondition checks of createRental
PreconditionErrors == {"BookNotFound", "BookNotAvailable", "ReaderNotFound", "RentalLimit"}

\* C20: a createRental rejected by a precondition check changes nothing.
\* Every step of a createRental up to the end of its checks, whether it
\* passes them or is rejected by one, leaves the Rental, Book and Reader
\* collections as they were.
C20_RejectedCreateChangesNothing ==
    [][\A s \in Slots :
         (/\ req'[s] # req[s]
          /\ req'[s].op = "createRental"
          /\ \/ req'[s].pc \in {"findReader", "count", "saveRental"}
             \/ req'[s].pc = "done" /\ req'[s].err \in PreconditionErrors)
         => /\ rentals' = rentals
            /\ books' = books
            /\ readers' = readers]_vars

\* A fourth createRental was rejected by the limit: the reader's three
\* rentals and the book's copies are as they were
C20_Witness ==
    /\ FinishedCreate(1) /\ req[1].err = "RentalLimit" /\ req[1].at = "count"
    /\ Len(rentals) = RentalLimit
    /\ \A i \in DOMAIN rentals : rentals[i].status = "active"
    /\ books[1].availableCopies = req[1].before
    /\ books[1].availableCopies = books[1].totalCopies - RentalLimit

\* The Book document a finished book request tried to save
Attempted(r) ==
    CASE r.op = "rentCopy" -> [r.book EXCEPT !.availableCopies = @ - 1]
      [] r.op = "returnCopy" -> [r.book EXCEPT !.availableCopies = @ + 1]
      [] OTHER -> r.book

BookWrites == {"createBook", "updateBook", "deleteBook", "rentCopy", "returnCopy"}

\* C21: a request that would persist a book with availableCopies < 0 or
\* availableCopies > totalCopies (createBook, updateBook, deleteBook,
\* rentCopy, returnCopy) fails and leaves the Book collection as it was; a
\* createBook that succeeds stores availableCopies = totalCopies.
C21_BadCountersRefused ==
    [][(req'[1] # req[1] /\ req'[1].op \in BookWrites /\ req'[1].pc = "done")
       => /\ (\/ Attempted(req'[1]).availableCopies < 0
              \/ Attempted(req'[1]).availableCopies > Attempted(req'[1]).totalCopies)
               => (req'[1].err # "none" /\ books' = books)
          /\ (req'[1].op = "createBook" /\ req'[1].err = "none")
               => books'[req'[1].bookId].availableCopies
                    = books'[req'[1].bookId].totalCopies]_vars

\* updateBook was refused a totalCopies below the stored availableCopies
C21_Witness ==
    /\ req[1].op = "updateBook" /\ req[1].pc = "done"
    /\ req[1].book.availableCopies > req[1].book.totalCopies
    /\ req[1].book.totalCopies >= 1
    /\ req[1].err = "AvailableExceedsTotal"
    /\ books[1].availableCopies = req[1].before
    /\ books[1].availableCopies <= books[1].totalCopies

\* The third count of a statistics answer, under either of its two names
ThirdCount(stats) ==
    IF stats.totalRentals # Undefined THEN stats.totalRentals ELSE stats.completedRentals

\* C22: a statistics answer (no write is in progress) carries the number of
\* rentals stored as active, the number stored as overdue, the number of all
\* rentals, and as totalRevenue the sum of totalAmount over exactly the
\* returned rentals (0 when there is none).
C22_Statistics ==
    (req[1].op = "getRentalStats" /\ req[1].pc = "done")
    => /\ req[1].stats.activeRentals
            = Cardinality({i \in DOMAIN rentals : rentals[i].status = "active"})
       /\ req[1].stats.overdueRentals
            = Cardinality({i \in DOMAIN rentals : rentals[i].status = "overdue"})
       /\ ThirdCount(req[1].stats) = Len(rentals)
       /\ req[1].stats.totalRevenue
            = SumTotalAmount({i \in DOMAIN rentals : rentals[i].status = "returned"})
       /\ (\A i \in DOMAIN rentals : rentals[i].status # "returned")
            => req[1].stats.totalRevenue = 0

\* src/controllers/rentalController.js answered with the number of returned
\* rentals as its third count while an unreturned rental exists
C22_ReturnedCounted ==
    /\ req[1].op = "getRentalStats" /\ req[1].pc = "done"
    /\ revision = "inline"
    /\ \E i \in DOMAIN rentals : rentals[i].status # "returned"
    /\ \E i \in DOMAIN rentals : rentals[i].status = "returned"
    /\ req[1].stats.completedRentals < Len(rentals)
    /\ req[1].stats.totalRevenue > 0

\* C23: a return made after expectedReturnDate with no fineAmount in its
\* body stores a fine above 0, derived from the lateness.
C23_AutomaticFine ==
    \A i \in DOMAIN rentals :
        (~Unreturned(i) /\ rentals[i].actualReturnDate > rentals[i].expectedReturnDate)
        => rentals[i].fineAmount > 0

\* A rental due 18 h after its issue was returned 36 h after it, with
\* success, and is stored with fineAmount 0
C23_LateWithoutFine ==
    /\ FinishedReturn(1) /\ req[1].err = "none"
    /\ LET r == rentals[req[1].rentalId]
       IN  /\ r.expectedReturnDate > r.issueDate
           /\ r.actualReturnDate > r.expectedReturnDate
           /\ r.status = "returned"
           /\ r.fineAmount = 0

\* C24: the limit of active rentals is checked once, at the count, and not
\* again when the rental is saved: no createRental that got past the count
\* ends with the limit error, so two requests for a reader with 2 active
\* rentals that both count before either saves both succeed.
C24_LimitCheckedOnce ==
    \A s \in Slots :
        (FinishedCreate(s) /\ req[s].err = "RentalLimit") => req[s].at = "count"

\* Both requests were answered with success and the reader, who held 2
\* active rentals, holds 4
C24_FourActive ==
    /\ \A s \in Slots : FinishedCreate(s) /\ req[s].err = "none" /\ req[s].readerId = 1
    /\ req[1].rentalId # req[2].rentalId
    /\ activeRentals(1) = RentalLimit + 1

\* The rentals of book b that have no actualReturnDate
Outstanding(b) == {i \in DOMAIN rentals : rentals[i].book = b /\ Unreturned(i)}

\* C25: with requests served one at a time and no edit of the book, between
\* requests every book has availableCopies + (number of its rentals with no
\* actualReturnDate) = totalCopies.
C25_CopiesAccounted ==
    (\A s \in Slots : Free(s))
    => \A b \in BookIds :
          books[b].exists
          => books[b].availableCopies + Cardinality(Outstanding(b)) = books[b].totalCopies

\* createRental saved its rental and then failed in rentCopy: the rental is
\* out and every copy is still counted as available
C25_RentalOutAllAvailable ==
    /\ FinishedCreate(1) /\ req[1].at = "rentCopy" /\ req[1].err = "StoreError"
    /\ Cardinality(Outstanding(1)) = 1
    /\ books[1].availableCopies = books[1].totalCopies

\* C26: with createRental and returnBook requests interleaved on one book,
\* once every request has been answered the book has
\* availableCopies = totalCopies - (number of its unreturned rentals).
C26_NoLostUpdate ==
    (\A s \in Slots : Free(s))
    => \A b \in BookIds :
          books[b].exists
          => books[b].availableCopies
               = books[b].totalCopies - Cardinality(Outstanding(b))

\* A create and the return of the other rental both read the book with 1 of
\* its 2 copies available and both succeeded: one rental is out and both
\* copies are counted as available, the decrement of the create is lost
C26_DecrementLost ==
    /\ FinishedCreate(1) /\ req[1].err = "none" /\ req[1].before = 1
    /\ FinishedReturn(2) /\ req[2].err = "none" /\ req[2].before = 1
    /\ req[1].rentalId # req[2].rentalId
    /\ Len(rentals) = 2
    /\ Outstanding(1) = {req[1].rentalId}
    /\ books[1].totalCopies = 2 /\ books[1].availableCopies = 2

\* C27: of two returnBook requests that both read the same rental while it
\* was unreturned, at most one succeeds, the copy is released once, and the
\* fineAmount the successful one stored is what the rental keeps.
C27_ReturnedOnce ==
    (/\ FinishedReturn(1) /\ FinishedReturn(2)
     /\ req[1].rentalId = req[2].rentalId
     /\ \A s \in Slots : req[s].rental.status \in {"active", "overdue"})
    => /\ Cardinality({s \in Slots : req[s].err = "none"}) <= 1
       /\ books[req[1].bookId].availableCopies <= req[1].before + 1
       /\ \A s \in Slots :
             req[s].err = "none" => rentals[req[s].rentalId].fineAmount = req[s].fine

\* Both returns of the rental were answered with success; the fine of 1000
\* that the first stored was replaced by the 0 of the second
C27_BothReturned ==
    /\ FinishedReturn(1) /\ FinishedReturn(2)
    /\ req[1].rentalId = 1 /\ req[2].rentalId = 1
    /\ req[1].err = "none" /\ req[2].err = "none"
    /\ req[1].fine = 1000 /\ req[2].fine = 0
    /\ rentals[1].status = "returned" /\ rentals[1].fineAmount = 0
    /\ books[1].availableCopies = 1

\* C28: the stored totalAmount of every rental is at least 0, when it is
\* created and after it is returned, whatever the price, the category of
\* the reader, the expectedReturnDate and the duration.
C28_TotalAmountNotNegative ==
    \A i \in DOMAIN rentals : rentals[i].totalAmount >= 0

\* A student's rental due in 14 days was created with success: one day at
\* the daily price less the discount on 14 days is stored, below 0
C28_CreatedNegative ==
    /\ FinishedCreate(1) /\ req[1].err = "none"
    /\ LET r == rentals[req[1].rentalId]
       IN  /\ Unreturned(req[1].rentalId)
           /\ r.discountAmount > r.rentalPricePerDay
           /\ r.totalAmount = r.rentalPricePerDay - r.discountAmount
           /\ r.totalAmount < 0

\* C29: with requests one at a time, among them updateBook and deleteBook,
\* the return of an unreturned rental whose copy was taken never fails in
\* returnCopy with 'Cannot return more copies than total'.
C29_ReleaseNeverRefused ==
    (FinishedReturn(1) /\ req[1].rental.status \in {"active", "overdue"})
    => req[1].err # "CannotReturnMore"

\* After updateBook set availableCopies to totalCopies the return saved the
\* rental as returned and was refused by returnCopy
C29_ReleaseRefused ==
    /\ FinishedReturn(1) /\ req[1].rentalId = 1
    /\ req[1].rental.status = "active"
    /\ req[1].at = "returnCopy" /\ req[1].err = "CannotReturnMore"
    /\ rentals[1].status = "returned"
    /\ books[1].availableCopies = books[1].totalCopies

NoStatus(e) == e.status = 0 /\ e.statusCode = 0

Recognised(e) ==
    \/ e.name \in {"ValidationError", "CastError", "JsonWebTokenError", "TokenExpiredError"}
    \/ e.code = 11000

\* C30: the response to a failed request has the status the error carries;
\* for an error without one, 400 when it is a ValidationError or a
\* CastError, 409 when its code is 11000, and 500 only when it is none of
\* the kinds the handler knows; the response always has a message.
C30_Classified ==
    \A s \in Slots :
        (req[s].op = "failed" /\ req[s].pc = "done")
        => LET e == req[s].error
               r == req[s].response
           IN  /\ ~NoStatus(e) => r.status = (IF e.status # 0 THEN e.status ELSE e.statusCode)
               /\ (NoStatus(e) /\ e.name \in {"ValidationError", "CastError"})
                    => r.status = 400
               /\ (NoStatus(e) /\ e.code = 11000
                      /\ e.name \notin {"ValidationError", "CastError"})
                    => r.status = 409
               /\ (NoStatus(e) /\ r.status = 500) => ~Recognised(e)
               /\ r.message # ""

\* A Mongoose ValidationError, which has no status, was answered with 500
C30_ValidationAnswered500 ==
    /\ req[1].op = "failed" /\ req[1].pc = "done"
    /\ NoStatus(req[1].error)
    /\ req[1].error.name = "ValidationError" /\ req[1].error.code = 0
    /\ req[1].response.status = 500
    /\ req[1].response.message = req[1].error.message

====
